---- MODULE Spec2Model ----
(***************************************************************************)
(* Model of the image-processing API.                                      *)
(*                                                                         *)
(*   src/server.js          the "fabricate" variant: upload -> JPEG ->     *)
(*                          EXIF injection -> WebP                         *)
(*   src/unnamed/part_000   the "strip" variant: upload -> WebP with       *)
(*                          .withMetadata(false)                           *)
(*                                                                         *)
(* Strings are sequences of one-character strings.  Coordinates are        *)
(* integers in micro-degrees (FIXED_EXIF has six decimals), and the        *)
(* arithmetic of convertGPSToExif is done exactly on them.                 *)
(***************************************************************************)
EXTENDS Integers, Sequences, FiniteSets, TLC

VARIABLES
  mode,         \* which server runs: "fabricate" (server.js) or "strip"
  pc,           \* per request: where its handling stands
  req,          \* per request: what the client sent
  quality,      \* per request: the handler's local quality
  newFilename,  \* per request: the handler's local newFilename
  jpegBuffer,   \* per request: the local jpegBuffer (no element: unset)
  jpegWithExif, \* per request: the local jpegWithExif (no element: unset)
  call,         \* per request: the codec call it awaits (no element: none)
  stages,       \* per request: the codec and injector calls that completed
  responses,    \* per request: the responses sent, in order
  fixedExif,    \* the module-level object FIXED_EXIF
  gpsIn,        \* the coordinates handed to convertGPSToExif
  gpsOut        \* its result (no element: not yet called)

vars == <<mode, pc, req, quality, newFilename, jpegBuffer, jpegWithExif, call,
          stages, responses, fixedExif, gpsIn, gpsOut>>

serverVars == <<mode, pc, req, quality, newFilename, jpegBuffer, jpegWithExif,
                call, stages, responses, fixedExif>>

(***************************************************************************)
(* Bounds of the model.                                                    *)
(***************************************************************************)
\* requests in flight at once (SpecConc)
NReq == 2
\* longest quality string enumerated (SpecQuality)
MaxQLen == 3
\* spacing, in micro-degrees, of the coordinate grid (SpecGPS)
GridStep == 4999

Reqs == 1..NReq
Micro == 10^6

Max(S) == CHOOSE x \in S : \A y \in S : y <= x

(***************************************************************************)
(* Program constants.                                                      *)
(***************************************************************************)
DEFAULT_QUALITY == 75
MIN_QUALITY == 0
MAX_QUALITY == 100
JPEG_QUALITY == 95

\* FIXED_EXIF, the coordinates in micro-degrees
FIXED_EXIF ==
  [Make |-> "Canon", Model |-> "Canon EOS 5D Mark IV",
   Software |-> "Adobe Photoshop Lightroom",
   GPSLatitude |-> 40748817, GPSLongitude |-> -73985428]

\* the response messages of the two servers
MsgNoFile   == "No image file provided. Please upload an image in the \"image\" field."
MsgInvalid  == "Invalid or corrupted image file. Please upload a valid JPG or PNG image."
MsgInject   == "Failed to inject EXIF metadata"
MsgConvert  == "Failed to convert image to WebP"
MsgInternal == "Internal server error during image processing"
MsgFileType == "Invalid file type. Only JPG and PNG are allowed."
MsgTooLarge == "File size too large. Maximum size is 50MB."
MsgGeneric  == "Internal server error"

\* the text injectExifIntoJpeg rethrows with
ErrInjectText == "Failed to inject EXIF metadata into image"
\* the text of the TypeError res.set throws on a header value it refuses
ErrHeaderText == "Invalid character in header content [\"Content-Disposition\"]"
\* the text of the MulterError for a file in an unexpected field
ErrFieldText == "Unexpected field"

(***************************************************************************)
(* parseInt(req.body.quality) || 75, and the range check.                  *)
(***************************************************************************)
WhiteSpace == {" ", "\t", "\n", "\r"}
DecDigits == <<"0", "1", "2", "3", "4", "5", "6", "7", "8", "9">>
HexLower == <<"a", "b", "c", "d", "e", "f">>
HexUpper == <<"A", "B", "C", "D", "E", "F">>

\* the value of a digit, 36 for a character that is no digit in any radix
DigitVal(c) ==
  IF \E i \in 1..10 : DecDigits[i] = c
    THEN (CHOOSE i \in 1..10 : DecDigits[i] = c) - 1
  ELSE IF \E i \in 1..6 : HexLower[i] = c
    THEN (CHOOSE i \in 1..6 : HexLower[i] = c) + 9
  ELSE IF \E i \in 1..6 : HexUpper[i] = c
    THEN (CHOOSE i \in 1..6 : HexUpper[i] = c) + 9
  ELSE 36

\* the number of leading characters of s that are in the set S
LeadIn(s, S) == Max({k \in 0..Len(s) : \A i \in 1..k : s[i] \in S})
\* the number of leading characters of s that are digits of the radix
LeadDigits(s, radix) ==
  Max({k \in 0..Len(s) : \A i \in 1..k : DigitVal(s[i]) < radix})
Drop(s, k) == SubSeq(s, k + 1, Len(s))

RECURSIVE Horner(_, _, _)
Horner(s, radix, acc) ==
  IF s = <<>> THEN acc
  ELSE Horner(Tail(s), radix, acc * radix + DigitVal(Head(s)))

NaN == [nan |-> TRUE, val |-> 0]
Num(n) == [nan |-> FALSE, val |-> n]

\* ToString of req.body.quality: a missing field is undefined
ToStringJS(field) ==
  IF field = <<>> THEN <<"u", "n", "d", "e", "f", "i", "n", "e", "d">>
  ELSE field[1]

\* parseInt(string) with no radix argument
ParseInt(field) ==
  LET s0 == ToStringJS(field)
      s1 == Drop(s0, LeadIn(s0, WhiteSpace))
      neg == s1 # <<>> /\ s1[1] = "-"
      s2 == IF s1 # <<>> /\ s1[1] \in {"-", "+"} THEN Tail(s1) ELSE s1
      hex == Len(s2) >= 2 /\ s2[1] = "0" /\ s2[2] \in {"x", "X"}
      radix == IF hex THEN 16 ELSE 10
      s3 == IF hex THEN Drop(s2, 2) ELSE s2
      z == SubSeq(s3, 1, LeadDigits(s3, radix))
  IN  IF z = <<>> THEN NaN
      ELSE Num((IF neg THEN -1 ELSE 1) * Horner(z, radix, 0))

\* x || 75: NaN and 0 are falsy
OrDefault(p) == IF p.nan \/ p.val = 0 THEN DEFAULT_QUALITY ELSE p.val

\* RangeCheck as a clamp to the nearest end of the range
RangeClamp(q) ==
  IF q < MIN_QUALITY THEN MIN_QUALITY
  ELSE IF q > MAX_QUALITY THEN MAX_QUALITY ELSE q

\* if (quality < 0 || quality > 100) quality = 75
RangeCheck(q) ==
  IF q < MIN_QUALITY \/ q > MAX_QUALITY THEN DEFAULT_QUALITY ELSE q

EffectiveQuality(field) == RangeCheck(OrDefault(ParseInt(field)))

(***************************************************************************)
(* path.parse(originalName).name and the new file name.  multer hands the  *)
(* handler a base name, so no path separator occurs.                       *)
(***************************************************************************)
LastDot(s) == Max({0} \cup {i \in 1..Len(s) : s[i] = "."})

PathParseName(s) ==
  LET k == LastDot(s)
  IN  IF k = 0 \/ k = 1 \/ (s[1] = "." /\ k = Len(s) /\ k = 2)
        THEN s
        ELSE SubSeq(s, 1, k - 1)

NewFilename(originalName) ==
  PathParseName(originalName) \o <<".", "w", "e", "b", "p">>

\* characters a header value may not hold: res.set throws on them
CtlChars == {"\n", "\r"}
HeaderRefused(name) == \E i \in 1..Len(name) : name[i] \in CtlChars

(***************************************************************************)
(* convertGPSToExif.  A coordinate is an integer number of micro-degrees;  *)
(* a rational is <<numerator, denominator>>.                               *)
(***************************************************************************)
Abs(x) == IF x < 0 THEN -x ELSE x

\* Math.floor(abs): whole degrees
DegOf(abs) == abs \div Micro
\* abs - deg, in micro-degrees
FracOf(abs) == abs - DegOf(abs) * Micro
\* Math.floor((abs - deg) * 60)
MinOf(abs) == (FracOf(abs) * 60) \div Micro
\* (abs - deg - min / 60) * 3600 in hundredths of a second, times 25:
\* frac * 360000 / 10^6 - min * 6000 = (9 * frac - 150000 * min) / 25
SecCenti25(abs) == 9 * FracOf(abs) - 150000 * MinOf(abs)
\* ToFixed2 with one decimal, x.toFixed(1), in hundredths
ToFixed1(num, den) == 10 * ((2 * num + 10 * den) \div (20 * den))

\* x.toFixed(2) of num / (100 * den): the nearest hundredth, a tie goes up
ToFixed2(num, den) == (2 * num + den) \div (2 * den)
\* Math.round(parseFloat(sec) * 100) of the two-decimal string
SecNumerator(abs) == ToFixed2(SecCenti25(abs), 25)

DMS(abs) == << <<DegOf(abs), 1>>, <<MinOf(abs), 1>>, <<SecNumerator(abs), 100>> >>

LatRef(lat) == IF lat >= 0 THEN "N" ELSE "S"
LngRef(lng) == IF lng >= 0 THEN "E" ELSE "W"

convertGPSToExif(lat, lng) ==
  [latRef |-> LatRef(lat), lngRef |-> LngRef(lng),
   lat |-> DMS(Abs(lat)), lng |-> DMS(Abs(lng))]

(***************************************************************************)
(* Images.  A buffer is what the codecs can tell about a byte sequence:    *)
(* its container, its embedded metadata (no element: none), how large the  *)
(* picture is, the quality of the encode that produced it (0: uploaded)    *)
(* and the stages that produced it from the upload.                        *)
(***************************************************************************)
\* the metadata a camera left in an uploaded file
CameraExif ==
  [zeroth |-> [Make |-> "NIKON CORPORATION", Model |-> "NIKON D850",
               Software |-> "Ver.1.10"],
   gps |-> [GPSLatitudeRef |-> "S", GPSLatitude |-> DMS(33868820),
            GPSLongitudeRef |-> "E", GPSLongitude |-> DMS(151209296)]]

\* exifObj of injectExifIntoJpeg, built from the fixed values
ExifObj(fixed) ==
  LET gpsData == convertGPSToExif(fixed.GPSLatitude, fixed.GPSLongitude)
  IN  [zeroth |-> [Make |-> fixed.Make, Model |-> fixed.Model,
                   Software |-> fixed.Software],
       gps |-> [GPSLatitudeRef |-> gpsData.latRef, GPSLatitude |-> gpsData.lat,
                GPSLongitudeRef |-> gpsData.lngRef, GPSLongitude |-> gpsData.lng]]

Upload(fmt, meta, size) ==
  [fmt |-> fmt, meta |-> meta, size |-> size, q |-> 0, hist |-> <<>>]

\* the text of the codec's errors
ErrDecodeText == "Input buffer contains unsupported image format"
ErrOptionText == "Expected integer between 1 and 100 for quality"
ErrEncodeText(target) ==
  IF target = "webp" THEN "Processed image is too large for the WebP format"
  ELSE "Processed image is too large for the JPEG format"

\* a picture fits a container unless a side exceeds the container's limit
Fits(size, target) ==
  \/ size = "fits"
  \/ size = "overWebp" /\ target = "jpeg"

\* sharp's metadata switch: off unless withMetadata is called, and
\* withMetadata(options) takes a boolean argument as the switch
NoWithMetadata == FALSE
\* withMetadata that switches metadata on whatever its argument
withMetadataKeep(options) == TRUE
withMetadata(options) == IF options \in BOOLEAN THEN options ELSE TRUE

\* sharp(input).[withMetadata(..)].jpeg|webp({quality}).toBuffer()
Sharp(input, keep, target, q) ==
  IF q \notin 1..100
    THEN [ok |-> FALSE, fail |-> "options", message |-> ErrOptionText, out |-> <<>>]
  ELSE IF input.fmt \notin {"jpeg", "png"}
    THEN [ok |-> FALSE, fail |-> "decode", message |-> ErrDecodeText, out |-> <<>>]
  ELSE IF ~Fits(input.size, target)
    THEN [ok |-> FALSE, fail |-> "encode", message |-> ErrEncodeText(target),
          out |-> <<>>]
  ELSE [ok |-> TRUE, fail |-> "", message |-> "",
        out |-> <<[fmt |-> target,
                   meta |-> IF keep THEN input.meta ELSE <<>>,
                   size |-> input.size, q |-> q,
                   hist |-> Append(input.hist, target)]>>]

\* injectExifIntoJpeg: piexifjs replaces the container's EXIF segment; any
\* failure of dump or insert is rethrown with the fixed text
injectExifIntoJpeg(buf, fixed, fault) ==
  IF fault \/ buf.fmt # "jpeg"
    THEN [ok |-> FALSE, fail |-> "inject", message |-> ErrInjectText, out |-> <<>>]
  ELSE [ok |-> TRUE, fail |-> "", message |-> "",
        out |-> <<[buf EXCEPT !.meta = <<ExifObj(fixed)>>,
                              !.hist = Append(@, "exif")]>>]

(***************************************************************************)
(* Requests and responses.                                                 *)
(***************************************************************************)
\* what a client sends: how the upload fares in multer ("file": accepted),
\* the file's bytes and declared name, the quality field of the body (no
\* element: absent), and whether piexifjs fails on this request
NoRequest ==
  [upload |-> "none", file |-> <<>>, originalname |-> <<>>, quality |-> <<>>,
   exifFault |-> FALSE]

Rejected(kinds) == {[NoRequest EXCEPT !.upload = k] : k \in kinds}

Accepted(images, names, fields, faults) ==
  {[upload |-> "file", file |-> <<i>>, originalname |-> n, quality |-> f,
    exifFault |-> x] : i \in images, n \in names, f \in fields, x \in faults}

\* res.status(status).json({error, [key]: text})
Json(status, error, key, text) ==
  [status |-> status, error |-> error, key |-> key, text |-> text,
   filename |-> <<>>, image |-> <<>>]

\* res.set({...}); res.send(webpBuffer)
Send(filename, buf) ==
  [status |-> 200, error |-> "", key |-> "", text |-> "",
   filename |-> filename, image |-> <<buf>>]

Respond(r, resp) == [responses EXCEPT ![r] = Append(@, resp)]

\* a completed codec or injector call
Stage(op, input, keep, q, res) ==
  [op |-> op, input |-> input, keep |-> keep, q |-> q, ok |-> res.ok,
   fail |-> res.fail]

\* an awaited codec call
Call(input, keep, target, q) ==
  [input |-> input, keep |-> keep, target |-> target, q |-> q]

\* the error handling middleware
ErrorMiddleware(error) ==
  IF error.multer
    THEN IF error.code = "LIMIT_FILE_SIZE"
           THEN Json(400, MsgTooLarge, "", "")
           ELSE Json(400, error.message, "", "")
  ELSE IF error.message = MsgFileType
    THEN Json(400, error.message, "", "")
  ELSE Json(500, MsgGeneric, "", "")

\* the error multer passes on for an upload it refuses
MulterError(upload) ==
  IF upload = "badmime"
    THEN [multer |-> FALSE, code |-> "", message |-> MsgFileType]
  ELSE IF upload = "toolarge"
    THEN [multer |-> TRUE, code |-> "LIMIT_FILE_SIZE", message |-> "File too large"]
  ELSE [multer |-> TRUE, code |-> "LIMIT_UNEXPECTED_FILE", message |-> ErrFieldText]

\* SetQuality on a variable of the module, shared by the invocations
SetQualityShared(r, q) == [x \in Reqs |-> q]
\* let quality: a local of the handler's invocation
SetQuality(r, q) == [quality EXCEPT ![r] = q]

\* FinalInput reading jpegBuffer instead
FinalInputPlain(plain, withExif) == plain
\* the buffer the final encode reads: sharp(jpegWithExif)
FinalInput(plain, withExif) == withExif

\* headers and body of the success response; a header value that res.set
\* refuses throws into the handler's outer catch
Deliver(filename, buf) ==
  IF HeaderRefused(filename)
    THEN Json(500, MsgInternal, "message", ErrHeaderText)
    ELSE Send(filename, buf)

(***************************************************************************)
(* The state machine.                                                      *)
(***************************************************************************)
Init ==
  /\ mode \in {"fabricate", "strip"}
  /\ pc = [r \in Reqs |-> "idle"]
  /\ req = [r \in Reqs |-> NoRequest]
  /\ quality = [r \in Reqs |-> 0]
  /\ newFilename = [r \in Reqs |-> <<>>]
  /\ jpegBuffer = [r \in Reqs |-> <<>>]
  /\ jpegWithExif = [r \in Reqs |-> <<>>]
  /\ call = [r \in Reqs |-> <<>>]
  /\ stages = [r \in Reqs |-> <<>>]
  /\ responses = [r \in Reqs |-> <<>>]
  /\ fixedExif = FIXED_EXIF
  /\ gpsIn = <<FIXED_EXIF.GPSLatitude, FIXED_EXIF.GPSLongitude>>
  /\ gpsOut = <<>>

\* a client posts to /process
Receive(r, inputs) ==
  /\ pc[r] = "idle"
  /\ \E i \in inputs :
       /\ i.exifFault => mode = "fabricate"
       /\ req' = [req EXCEPT ![r] = i]
  /\ pc' = [pc EXCEPT ![r] = "multer"]
  /\ UNCHANGED <<mode, quality, newFilename, jpegBuffer, jpegWithExif, call,
                 stages, responses, fixedExif, gpsIn, gpsOut>>

\* upload.single('image'): the file filter and the size limit; a refused
\* upload goes to the error handling middleware
UploadSingle(r) ==
  /\ pc[r] = "multer"
  /\ IF req[r].upload \in {"badmime", "toolarge", "badfield"}
       THEN /\ responses' = Respond(r, ErrorMiddleware(MulterError(req[r].upload)))
            /\ pc' = [pc EXCEPT ![r] = "done"]
       ELSE /\ pc' = [pc EXCEPT ![r] = "handler"]
            /\ UNCHANGED responses
  /\ UNCHANGED <<mode, req, quality, newFilename, jpegBuffer, jpegWithExif,
                 call, stages, fixedExif, gpsIn, gpsOut>>

\* server.js, the handler up to its first await
FabStart(r) ==
  /\ mode = "fabricate"
  /\ pc[r] = "handler"
  /\ IF req[r].file = <<>>
       THEN /\ responses' = Respond(r, Json(400, MsgNoFile, "", ""))
            /\ pc' = [pc EXCEPT ![r] = "done"]
            /\ UNCHANGED <<quality, newFilename, call>>
       ELSE /\ quality' = SetQuality(r, EffectiveQuality(req[r].quality))
            /\ newFilename' =
                 [newFilename EXCEPT ![r] = NewFilename(req[r].originalname)]
            /\ call' = [call EXCEPT ![r] =
                 <<Call(req[r].file[1], NoWithMetadata, "jpeg", JPEG_QUALITY)>>]
            /\ pc' = [pc EXCEPT ![r] = "awaitJpeg"]
            /\ UNCHANGED responses
  /\ UNCHANGED <<mode, req, jpegBuffer, jpegWithExif, stages, fixedExif,
                 gpsIn, gpsOut>>

\* Step1Catch without its return: the handler goes on to STEP 2 with
\* jpegBuffer unset, the injection throws, and a second response is sent
Step1CatchNoReturn(r, s1) ==
  /\ responses' = [responses EXCEPT ![r] =
       @ \o <<Json(400, MsgInvalid, "", ""),
              Json(500, MsgInject, "message", ErrInjectText)>>]
  /\ stages' = [stages EXCEPT ![r] = @ \o
       <<s1, [s1 EXCEPT !.op = "exif", !.fail = "inject"]>>]
  /\ call' = [call EXCEPT ![r] = <<>>]
  /\ pc' = [pc EXCEPT ![r] = "done"]
  /\ UNCHANGED <<jpegBuffer, jpegWithExif>>

\* server.js, the catch of STEP 1: respond and return
Step1Catch(r, s1) ==
  /\ responses' = Respond(r, Json(400, MsgInvalid, "", ""))
  /\ stages' = [stages EXCEPT ![r] = Append(@, s1)]
  /\ call' = [call EXCEPT ![r] = <<>>]
  /\ pc' = [pc EXCEPT ![r] = "done"]
  /\ UNCHANGED <<jpegBuffer, jpegWithExif>>

\* server.js, from the end of STEP 1 to the await of STEP 3
FabAfterJpeg(r) ==
  /\ mode = "fabricate"
  /\ pc[r] = "awaitJpeg"
  /\ LET c == call[r][1]
         r1 == Sharp(c.input, c.keep, c.target, c.q)
         s1 == Stage("jpeg", c.input, c.keep, c.q, r1)
     IN  IF ~r1.ok
           THEN Step1Catch(r, s1)
           ELSE LET r2 == injectExifIntoJpeg(r1.out[1], fixedExif, req[r].exifFault)
                    s2 == Stage("exif", r1.out[1], TRUE, 0, r2)
                IN  /\ jpegBuffer' = [jpegBuffer EXCEPT ![r] = r1.out]
                    /\ stages' = [stages EXCEPT ![r] = @ \o <<s1, s2>>]
                    /\ IF ~r2.ok
                         THEN /\ responses' = Respond(r,
                                   Json(500, MsgInject, "message", r2.message))
                              /\ call' = [call EXCEPT ![r] = <<>>]
                              /\ pc' = [pc EXCEPT ![r] = "done"]
                              /\ UNCHANGED jpegWithExif
                         ELSE /\ jpegWithExif' = [jpegWithExif EXCEPT ![r] = r2.out]
                              /\ call' = [call EXCEPT ![r] =
                                   <<Call(FinalInput(r1.out[1], r2.out[1]),
                                          NoWithMetadata, "webp", quality[r])>>]
                              /\ pc' = [pc EXCEPT ![r] = "awaitWebp"]
                              /\ UNCHANGED responses
  /\ UNCHANGED <<mode, req, quality, newFilename, fixedExif, gpsIn, gpsOut>>

\* server.js, from the end of STEP 3 to the response
FabAfterWebp(r) ==
  /\ mode = "fabricate"
  /\ pc[r] = "awaitWebp"
  /\ LET c == call[r][1]
         r3 == Sharp(c.input, c.keep, c.target, c.q)
     IN  /\ stages' = [stages EXCEPT ![r] =
                Append(@, Stage("webp", c.input, c.keep, c.q, r3))]
         /\ responses' = Respond(r,
              IF ~r3.ok THEN Json(500, MsgConvert, "message", r3.message)
              ELSE Deliver(newFilename[r], r3.out[1]))
  /\ call' = [call EXCEPT ![r] = <<>>]
  /\ pc' = [pc EXCEPT ![r] = "done"]
  /\ UNCHANGED <<mode, req, quality, newFilename, jpegBuffer, jpegWithExif,
                 fixedExif, gpsIn, gpsOut>>

\* part_000, the handler up to its await
StripStart(r) ==
  /\ mode = "strip"
  /\ pc[r] = "handler"
  /\ IF req[r].file = <<>>
       THEN /\ responses' = Respond(r, Json(400, MsgNoFile, "", ""))
            /\ pc' = [pc EXCEPT ![r] = "done"]
            /\ UNCHANGED <<quality, newFilename, call>>
       ELSE /\ quality' = SetQuality(r, EffectiveQuality(req[r].quality))
            /\ newFilename' =
                 [newFilename EXCEPT ![r] = NewFilename(req[r].originalname)]
            /\ call' = [call EXCEPT ![r] =
                 <<Call(req[r].file[1], withMetadata(FALSE), "webp", quality'[r])>>]
            /\ pc' = [pc EXCEPT ![r] = "awaitWebp"]
            /\ UNCHANGED responses
  /\ UNCHANGED <<mode, req, jpegBuffer, jpegWithExif, stages, fixedExif,
                 gpsIn, gpsOut>>

\* part_000, from the end of the conversion to the response
StripAfterWebp(r) ==
  /\ mode = "strip"
  /\ pc[r] = "awaitWebp"
  /\ LET c == call[r][1]
         r1 == Sharp(c.input, c.keep, c.target, c.q)
     IN  /\ stages' = [stages EXCEPT ![r] =
                Append(@, Stage("webp", c.input, c.keep, c.q, r1))]
         /\ responses' = Respond(r,
              IF ~r1.ok THEN Json(400, MsgInvalid, "details", r1.message)
              ELSE Deliver(newFilename[r], r1.out[1]))
  /\ call' = [call EXCEPT ![r] = <<>>]
  /\ pc' = [pc EXCEPT ![r] = "done"]
  /\ UNCHANGED <<mode, req, quality, newFilename, jpegBuffer, jpegWithExif,
                 fixedExif, gpsIn, gpsOut>>

(***************************************************************************)
(* The inputs the specifications draw from.                                *)
(***************************************************************************)
Garbage == Upload("garbage", <<>>, "fits")
CameraJpeg == Upload("jpeg", <<CameraExif>>, "fits")
WidePng == Upload("png", <<>>, "overWebp")

Images ==
  {Garbage}
    \cup {Upload("jpeg", m, z) : m \in {<<>>, <<CameraExif>>},
                                 z \in {"fits", "overWebp"}}
    \cup {Upload("png", m, z) : m \in {<<>>, <<CameraExif>>},
                                z \in {"fits", "overWebp", "overJpeg"}}

Names ==
  { <<"a", ".", "p", "n", "g">>, <<"a">>, <<".", "a">>, <<".", ".">>,
    <<"a", ".", "b", ".", "j">>, <<"a", "\n", ".", "j">> }

Fields ==
  { <<>>, << <<"0">> >>, << <<"5", "0">> >>, << <<"1", "0", "0">> >>,
    << <<"1", "0", "1">> >>, << <<"a", "b", "c">> >> }

QChars == {"0", "1", "7", "-", " ", "a", "x"}
QStrings == UNION {[1..n -> QChars] : n \in 0..MaxQLen}
AllFields == {<<>>} \cup {<<s>> : s \in QStrings}

\* one request, every image and name, a few quality fields
Inputs ==
  Rejected({"none", "badmime", "toolarge", "badfield"})
    \cup Accepted(Images, Names, Fields, BOOLEAN)

\* one request, every quality string up to MaxQLen
InputsQuality ==
  Rejected({"none", "badmime"})
    \cup Accepted({CameraJpeg, WidePng}, {<<"a", ".", "p", "n", "g">>},
                  AllFields, {FALSE})

\* several requests at once
InputsConc ==
  Rejected({"none", "badmime"})
    \cup Accepted({Garbage, CameraJpeg, WidePng}, {<<"a", ".", "p", "n", "g">>},
                  {<<>>, << <<"5", "0">> >>}, BOOLEAN)

Step(r) ==
  \/ UploadSingle(r)
  \/ FabStart(r)
  \/ FabAfterJpeg(r)
  \/ FabAfterWebp(r)
  \/ StripStart(r)
  \/ StripAfterWebp(r)

Next == Receive(1, Inputs) \/ Step(1)
Spec == Init /\ [][Next]_vars

NextQuality == Receive(1, InputsQuality) \/ Step(1)
SpecQuality == Init /\ [][NextQuality]_vars

NextConc == \E r \in Reqs : Receive(r, InputsConc) \/ Step(r)
SpecConc == Init /\ [][NextConc]_vars

(***************************************************************************)
(* convertGPSToExif on its own: the coordinates are drawn at the start.    *)
(***************************************************************************)
LatMax == 90 * Micro
LngMax == 180 * Micro

Grid(max) == {k * GridStep : k \in -(max \div GridStep)..(max \div GridStep)}

\* the fixed latitude, the ends of the range, and fractions whose seconds
\* round to 60.00 or lie next to a whole minute
LatSamples ==
  Grid(LatMax) \cup
  {FIXED_EXIF.GPSLatitude, LatMax, -LatMax, 0, 1, -1, 40016666, -40016666,
   89999999, -89999999, 12016667, 12999999, 33333333, 66666666}

LngSamples ==
  Grid(LngMax) \cup
  {FIXED_EXIF.GPSLongitude, LngMax, -LngMax, 0, 1, -1, 73016666, -73016666,
   179999999, -179999999, 100016667, 120999999, 133333333, 166666666}

\* each sample of one axis is paired with a few values of the other
LatEdge == {FIXED_EXIF.GPSLatitude, -LatMax, 40016666}
LngEdge == {FIXED_EXIF.GPSLongitude, LngMax, -73016666}

InitGPS ==
  /\ mode = "fabricate"
  /\ pc = [r \in Reqs |-> "idle"]
  /\ req = [r \in Reqs |-> NoRequest]
  /\ quality = [r \in Reqs |-> 0]
  /\ newFilename = [r \in Reqs |-> <<>>]
  /\ jpegBuffer = [r \in Reqs |-> <<>>]
  /\ jpegWithExif = [r \in Reqs |-> <<>>]
  /\ call = [r \in Reqs |-> <<>>]
  /\ stages = [r \in Reqs |-> <<>>]
  /\ responses = [r \in Reqs |-> <<>>]
  /\ fixedExif = FIXED_EXIF
  /\ gpsIn \in (LatSamples \X LngEdge) \cup (LatEdge \X LngSamples)
  /\ gpsOut = <<>>

Convert ==
  /\ gpsOut = <<>>
  /\ gpsOut' = <<convertGPSToExif(gpsIn[1], gpsIn[2])>>
  /\ UNCHANGED <<gpsIn, serverVars>>

NextGPS == Convert
SpecGPS == InitGPS /\ [][NextGPS]_vars

(***************************************************************************)
(* What the claims speak of.                                               *)
(***************************************************************************)
Done(r) == pc[r] = "done"
\* the image buffers sent to the client of request r
Sent(r) == {responses[r][i].image[1] :
              i \in {j \in 1..Len(responses[r]) : responses[r][j].image # <<>>}}
Statuses(r) == {responses[r][i].status : i \in 1..Len(responses[r])}
\* the completed stages of request r that ran operation op
StagesOf(r, op) == {stages[r][i] : i \in {j \in 1..Len(stages[r]) : stages[r][j].op = op}}
FailedStages(r) == {stages[r][i] : i \in {j \in 1..Len(stages[r]) : ~stages[r][j].ok}}
Ops(r) == [i \in 1..Len(stages[r]) |-> stages[r][i].op]
IsPrefix(s, t) == Len(s) <= Len(t) /\ s = SubSeq(t, 1, Len(s))
Chain == IF mode = "fabricate" THEN <<"jpeg", "exif", "webp">> ELSE <<"webp">>

\* C1: in fabricate mode every delivered output carries exactly the metadata
\* built from FIXED_EXIF (Make, Model, Software, GPS references and values).
C1_DeliveredCarriesFixedExif ==
  \A r \in Reqs : mode = "fabricate" =>
    \A b \in Sent(r) : b.meta = <<ExifObj(FIXED_EXIF)>>

QualityUnusable(r) ==
  LET p == ParseInt(req[r].quality)
  IN  p.nan \/ p.val < 0 \/ p.val > 100

\* C3: a quality field that is missing, parses to no number or parses to an
\* integer outside [0,100] gives the final WebP encode quality 75, and the
\* request is served as any other: a good image is delivered.
C3_UnusableQualityGivesDefault ==
  \A r \in Reqs : (req[r].file # <<>> /\ QualityUnusable(r)) =>
    /\ pc[r] \in {"awaitJpeg", "awaitWebp", "done"} => quality[r] = 75
    /\ \A st \in StagesOf(r, "webp") : st.q = 75
    /\ (Done(r) /\ req[r].file = <<CameraJpeg>>) =>
         /\ Statuses(r) = {200}
         /\ \A b \in Sent(r) : b.q = 75

C3_Witness ==
  \E r \in Reqs :
    /\ req[r].quality = << <<"-", "7">> >>
    /\ Done(r)
    /\ \E b \in Sent(r) : b.q = 75

\* C4: a quality field that parses to an integer q with 0 <= q <= 100 makes
\* the final WebP encode run with exactly q.
C4_UsableQualityUsedUnchanged ==
  \A r \in Reqs :
    LET p == ParseInt(req[r].quality)
    IN  (req[r].file # <<>> /\ ~p.nan /\ 0 <= p.val /\ p.val <= 100) =>
          \A st \in StagesOf(r, "webp") : st.q = p.val

\* C5: a request that ends on a failed decode of the upload is answered 400,
\* one that ends on a failed encode or a failed injection is answered 500.
C5_DecodeIs400EncodeIs500 ==
  \A r \in Reqs : Done(r) =>
    \A st \in FailedStages(r) :
      /\ st.fail = "decode" => Statuses(r) = {400}
      /\ st.fail \in {"encode", "inject"} => Statuses(r) = {500}

\* C6: a request stops at its first failed stage, runs no stage twice, gets
\* exactly one response, and image bytes are sent at most once, with status
\* 200 and only after the whole chain of its mode has succeeded.
C6_OneOutcomeNoPartialDelivery ==
  \A r \in Reqs :
    /\ Len(responses[r]) <= 1
    /\ Done(r) <=> Len(responses[r]) = 1
    /\ \A i \in 1..Len(stages[r]) : i < Len(stages[r]) => stages[r][i].ok
    /\ FailedStages(r) # {} => call[r] = <<>> /\ Done(r)
    /\ IsPrefix(Ops(r), Chain)
    /\ \A i \in 1..Len(responses[r]) :
         LET resp == responses[r][i]
         IN  /\ resp.image # <<>> =>
                  /\ resp.status = 200
                  /\ Ops(r) = Chain
                  /\ FailedStages(r) = {}
             /\ resp.status # 200 => resp.image = <<>>
             /\ resp.status = 200 => resp.image # <<>>

C6_Witness ==
  \E r \in Reqs :
    /\ Done(r)
    /\ Ops(r) = <<"jpeg", "exif">>
    /\ FailedStages(r) # {}
    /\ Statuses(r) = {500}
    /\ Sent(r) = {}

\* the fixed texts a client-fault response may carry
ClientMessages == {MsgNoFile, MsgInvalid, MsgFileType, MsgTooLarge, ErrFieldText}

\* C8: a response with status 400 carries one of the fixed messages and no
\* other field.
C8_ClientFaultCarriesNoDetail ==
  \A r \in Reqs : \A i \in 1..Len(responses[r]) :
    responses[r][i].status = 400 =>
      /\ responses[r][i].error \in ClientMessages
      /\ responses[r][i].key = ""
      /\ responses[r][i].text = ""

\* C10: in fabricate mode the stages run in the order JPEG encode, injection,
\* WebP encode; the JPEG encode reads the upload, the injection reads the
\* JPEG the first stage produced, and the WebP encode reads what the
\* injection produced.
C10_InjectBetweenTheTwoEncodes ==
  \A r \in Reqs : mode = "fabricate" =>
    /\ IsPrefix(Ops(r), <<"jpeg", "exif", "webp">>)
    /\ \A st \in StagesOf(r, "jpeg") : st.input = req[r].file[1]
    /\ \A st \in StagesOf(r, "exif") :
         /\ st.input.fmt = "jpeg"
         /\ st.input.hist = <<"jpeg">>
         /\ jpegBuffer[r] = <<st.input>>
    /\ \A st \in StagesOf(r, "webp") :
         /\ st.input.hist = <<"jpeg", "exif">>
         /\ jpegWithExif[r] = <<st.input>>
    /\ call[r] # <<>> /\ call[r][1].target = "webp" =>
         call[r][1].input.hist = <<"jpeg", "exif">>
    /\ \A b \in Sent(r) : b.hist = <<"jpeg", "exif", "webp">>

C10_Witness ==
  \E r \in Reqs :
    /\ mode = "fabricate"
    /\ req[r].file # <<>> /\ req[r].file[1].fmt = "png"
    /\ \E b \in Sent(r) : b.hist = <<"jpeg", "exif", "webp">>

\* what request i gets when it is the only request the server handles:
\* the handler's steps run one after the other
Alone(m, i) ==
  IF i.upload \in {"badmime", "toolarge", "badfield"}
    THEN ErrorMiddleware(MulterError(i.upload))
  ELSE IF i.file = <<>> THEN Json(400, MsgNoFile, "", "")
  ELSE
    LET q == EffectiveQuality(i.quality)
        name == NewFilename(i.originalname)
    IN  IF m = "strip"
          THEN LET r1 == Sharp(i.file[1], FALSE, "webp", q)
               IN  IF ~r1.ok THEN Json(400, MsgInvalid, "details", r1.message)
                   ELSE Deliver(name, r1.out[1])
          ELSE LET r1 == Sharp(i.file[1], FALSE, "jpeg", 95)
               IN  IF ~r1.ok THEN Json(400, MsgInvalid, "", "")
                   ELSE
                     LET r2 == injectExifIntoJpeg(r1.out[1], FIXED_EXIF, i.exifFault)
                     IN  IF ~r2.ok THEN Json(500, MsgInject, "message", r2.message)
                         ELSE
                           LET r3 == Sharp(r2.out[1], FALSE, "webp", q)
                           IN  IF ~r3.ok
                                 THEN Json(500, MsgConvert, "message", r3.message)
                                 ELSE Deliver(name, r3.out[1])

\* C9: with several requests in flight, in any interleaving of their awaits,
\* each finished request has the one response it would get alone, and
\* FIXED_EXIF still has its startup value.
C9_OutcomeAsIfAlone ==
  /\ fixedExif = FIXED_EXIF
  /\ \A r \in Reqs : Done(r) => responses[r] = <<Alone(mode, req[r])>>

\* two requests that differ in quality were both between their awaits, and
\* both have been answered with an image
C9_Witness ==
  \E r1, r2 \in Reqs :
    /\ r1 # r2
    /\ mode = "fabricate"
    /\ Len(stages[r1]) = 3 /\ Len(stages[r2]) = 2
    /\ pc[r2] = "awaitWebp"
    /\ quality[r1] # quality[r2]
    /\ Sent(r1) # {}

\* the decimal degrees a reader reconstructs, in units of 1/(25 * 360000)
\* degree: sign * (degrees + minutes/60 + (numerator/100)/3600)
Decoded25(ref, t) ==
  (IF ref \in {"N", "E"} THEN 1 ELSE -1)
    * 25 * ((t[1][1] \div t[1][2]) * 360000 + (t[2][1] \div t[2][2]) * 6000
            + (t[3][1] * 100) \div t[3][2])

\* C7: for a latitude in [-90,90] and a longitude in [-180,180] the decoded
\* coordinates are within 1/360000 of a degree of the originals.
C7_RoundTripWithinTolerance ==
  gpsOut # <<>> =>
    LET lat == gpsIn[1]
        lng == gpsIn[2]
        g == gpsOut[1]
    IN  (Abs(lat) <= LatMax /\ Abs(lng) <= LngMax) =>
          /\ Abs(Decoded25(g.latRef, g.lat) - 9 * lat) <= 25
          /\ Abs(Decoded25(g.lngRef, g.lng) - 9 * lng) <= 25
          /\ (lat = FIXED_EXIF.GPSLatitude /\ lng = FIXED_EXIF.GPSLongitude) =>
               /\ g.latRef = "N" /\ g.lngRef = "W"
               /\ g.lat = << <<40, 1>>, <<44, 1>>, <<5574, 100>> >>
               /\ g.lng = << <<73, 1>>, <<59, 1>>, <<754, 100>> >>

\* a negative longitude whose seconds round to 60.00 has been converted
C7_Witness ==
  /\ gpsOut # <<>>
  /\ gpsIn[2] < 0
  /\ gpsOut[1].lng[3] = <<6000, 100>>
  /\ gpsOut[1].lat[3][1] \notin {0, 6000}

====
